---- MODULE Spec2Model ----
(***************************************************************************)
(* A model of src/src/backend/journal_api.py (BeancountJournalAPI): the    *)
(* ledger files as sequences of lines, the in-memory snapshot produced by  *)
(* the loader, the backup files, and the create / update / delete /        *)
(* commodity-metadata / reload operations of the API.                      *)
(*                                                                         *)
(* A file's content is modelled as Python sees it after                    *)
(* content.split('\n'): a non-empty sequence of lines, the last one being  *)
(* the (usually empty) text after the final newline.                       *)
(***************************************************************************)
EXTENDS Integers, Sequences, FiniteSets, TLC

VARIABLES
    files,              \* file name -> sequence of lines (content.split('\n'))
    mtime,              \* file name -> modification time (a logical write clock)
    backups,            \* set of backup files [file, stamp, content, mtime]
    entries,            \* self.entries: the snapshot's directives
    errors,             \* self.errors: number of errors of the snapshot's load
    create_backups,     \* self.create_backups
    max_backup_files,   \* self.max_backup_files
    now,                \* wall clock, in seconds (the backup stamp)
    nops,               \* number of API calls made so far
    op,                 \* the last API call and its result
    pc,                 \* request thread -> position in its handler
    loc,                \* request thread -> the handler's local variables
    page,               \* what the last get_entries call returned
    rt                  \* a directive on its way through query, render, parse

vars == <<files, mtime, backups, entries, errors, create_backups,
          max_backup_files, now, nops, op, pc, loc, page, rt>>

-----------------------------------------------------------------------------
\* Bounds of the model.

\* API calls per behaviour.
MaxOps == 2

-----------------------------------------------------------------------------
\* Lines of a ledger file.

\* meta['lineno'] absent from a directive's metadata.
NoLineno == 0

\* self.beancount_file and the file it includes.
MainFile == "main"
IncFile == "inc"
FileNames == {MainFile, IncFile}

\* A directive's header line: kind, date, content (for a commodity: its symbol).
\* ln = FALSE marks a directive that the loader hands out without 'lineno'
\* metadata (an entry rebuilt by a ledger plugin).
Hdr(k, d, c) == [t |-> "hdr", k |-> k, d |-> d, c |-> c, ln |-> TRUE]
HdrNoLine(k, d, c) == [t |-> "hdr", k |-> k, d |-> d, c |-> c, ln |-> FALSE]
\* An indented line with text: a posting (c = the currency of its units) or a
\* metadata line.
Cont(c) == [t |-> "cont", k |-> "-", d |-> 0, c |-> c, ln |-> TRUE]
\* The empty line.
Blank == [t |-> "blank", k |-> "-", d |-> 0, c |-> 0, ln |-> TRUE]
\* A line of spaces only.
WsLine == [t |-> "ws", k |-> "-", d |-> 0, c |-> 0, ln |-> TRUE]
\* include "inc"
Include == [t |-> "include", k |-> "-", d |-> 0, c |-> 0, ln |-> TRUE]
\* A non-indented line that is no directive: the loader reports a syntax error.
BadLine == [t |-> "bad", k |-> "-", d |-> 0, c |-> 0, ln |-> TRUE]

\* line.startswith((' ', '\t'))
StartsIndented(l) == l.t \in {"cont", "ws"}
\* line.strip() == ''
StripsEmpty(l) == l.t \in {"blank", "ws"}

\* Python's content.split('\n') of what '\n'.join(lines) wrote: joining no
\* line at all writes the empty file, which splits into one empty line.
JoinSplit(lines) == IF lines = <<>> THEN <<Blank>> ELSE lines

\* open(file, 'a').write('\n' + text + '\n'), seen through split('\n').
AppendText(lines, text) == lines \o text \o <<Blank>>

\* Python's min, for slice bounds.
Min(a, b) == IF a < b THEN a ELSE b

\* lines[start:stop] = repl with 0 <= start <= stop (Python slice assignment;
\* bounds beyond the end are clamped to it).
SliceAssign(lines, start, stop, repl) ==
    LET n == Len(lines)
        s == Min(start, n)
        e == Min(stop, n)
    IN  SubSeq(lines, 1, s) \o repl \o SubSeq(lines, e + 1, n)

-----------------------------------------------------------------------------
\* The loader (beancount.loader.load_file), at its interface.

\* The indented text lines that follow line i: the directive's postings and
\* metadata.
RECURSIVE BodyOf(_, _)
BodyOf(lines, i) ==
    IF i < Len(lines) /\ lines[i + 1].t = "cont"
    THEN <<lines[i + 1].c>> \o BodyOf(lines, i + 1)
    ELSE <<>>

\* The directive parsed from the header at line i of file f.
EntryAt(f, lines, i) ==
    [kind |-> lines[i].k, date |-> lines[i].d, c |-> lines[i].c,
     body |-> BodyOf(lines, i), filename |-> f,
     lineno |-> IF lines[i].ln THEN i ELSE NoLineno]

RECURSIVE ParseFrom(_, _, _)
ParseFrom(f, lines, i) ==
    IF i > Len(lines) THEN <<>>
    ELSE IF lines[i].t = "hdr"
         THEN <<EntryAt(f, lines, i)>> \o ParseFrom(f, lines, i + 1)
         ELSE ParseFrom(f, lines, i + 1)

\* Lines the loader rejects: a bad line, or an indented text line that
\* follows no directive.
SyntaxErrors(lines) ==
    Cardinality({i \in 1..Len(lines) :
        \/ lines[i].t = "bad"
        \/ /\ lines[i].t = "cont"
           /\ (i = 1 \/ lines[i - 1].t \notin {"hdr", "cont"})})

HasInclude(fs) == \E i \in 1..Len(fs[MainFile]) : fs[MainFile][i].t = "include"

\* beancount.core.data.entry_sortkey: date, then the kind's rank, then lineno.
KindRank(k) ==
    CASE k = "open" -> 0
      [] k = "balance" -> 1
      [] k = "close" -> 3
      [] OTHER -> 2

EntryBefore(a, b) ==
    \/ a.date < b.date
    \/ a.date = b.date /\ KindRank(a.kind) < KindRank(b.kind)
    \/ a.date = b.date /\ KindRank(a.kind) = KindRank(b.kind) /\ a.lineno < b.lineno

RECURSIVE InsertSorted(_, _)
InsertSorted(e, s) ==
    IF s = <<>> THEN <<e>>
    ELSE IF EntryBefore(e, Head(s)) THEN <<e>> \o s
         ELSE <<Head(s)>> \o InsertSorted(e, Tail(s))

RECURSIVE SortEntries(_)
SortEntries(s) ==
    IF s = <<>> THEN <<>>
    ELSE CHOOSE r \in {InsertSorted(s[Len(s)], rest) :
                       rest \in {SortEntries(SubSeq(s, 1, Len(s) - 1))}} : TRUE

\* loader.load_file(self.beancount_file): the directives of the main file and
\* of the file it includes, sorted, each with filename and lineno metadata.
\* (The one-element sets bind an intermediate result to a name, so that it is
\* evaluated once.)
LoadEntries(fs) ==
    CHOOSE r \in {SortEntries(parsed) : parsed \in
               {ParseFrom(MainFile, fs[MainFile], 1)
                \o (IF HasInclude(fs) THEN ParseFrom(IncFile, fs[IncFile], 1)
                    ELSE <<>>)}} : TRUE

LoadErrors(fs) ==
    SyntaxErrors(fs[MainFile])
    + (IF HasInclude(fs) THEN SyntaxErrors(fs[IncFile]) ELSE 0)

-----------------------------------------------------------------------------
\* Identity and lookup.

\* hash_entry(entry, exclude_meta=False): a digest of every field of the
\* directive, its metadata (filename, lineno) included.  The digest is modelled
\* as injective: two directives get the same id iff all hashed fields agree.
generate_entry_id(e) ==
    <<e.kind, e.date, e.c, e.body, e.filename, e.lineno>>

\* An id that belongs to no directive.
UnknownId == <<"none", 0, 0, <<>>, MainFile, NoLineno>>

\* No directive.
None == [kind |-> "none", date |-> 0, c |-> 0, body |-> <<>>,
         filename |-> "-", lineno |-> NoLineno]

\* The first Transaction, Note, Balance or Pad of the snapshot with this id.
RECURSIVE FindFrom(_, _, _)
FindFrom(es, i, id) ==
    IF i > Len(es) THEN None
    ELSE IF /\ es[i].kind \in {"transaction", "note", "balance", "pad"}
            /\ generate_entry_id(es[i]) = id
         THEN es[i]
         ELSE FindFrom(es, i + 1, id)

find_entry_by_id(es, id) == FindFrom(es, 1, id)

find_transaction_by_id(es, id) ==
    LET e == find_entry_by_id(es, id)
    IN  IF e.kind = "transaction" THEN e ELSE None

\* The lookup each update method makes for its own kind of directive.
FindOfKind(es, kind, id) ==
    IF kind = "transaction" THEN find_transaction_by_id(es, id)
    ELSE LET e == find_entry_by_id(es, id)
         IN  IF e.kind = kind THEN e ELSE None

-----------------------------------------------------------------------------
\* Rendering.  A payload is [type, date, c, body, missing, bad]: missing says
\* that a key the renderer reads with payload[key] is absent (KeyError); bad
\* says that a text field holds a double quote, so that the rendered header is
\* no directive to the loader.

Raised == [raised |-> TRUE, lines |-> <<>>]
Rendered(ls) == [raised |-> FALSE, lines |-> ls]

HeaderOf(kind, p) == IF p.bad THEN BadLine ELSE Hdr(kind, p.date, p.c)

\* generate_transaction_text reading every key with .get(): a payload that
\* lacks a key is rendered all the same (mutant).
generate_transaction_text_get(p) ==
    Rendered(<<HeaderOf("transaction", p)>>
             \o [i \in 1..Len(p.body) |-> Cont(p.body[i])])

\* Header, then one indented line per metadata entry and posting.
generate_transaction_text(p) ==
    IF p.missing THEN Raised
    ELSE Rendered(<<HeaderOf("transaction", p)>>
                  \o [i \in 1..Len(p.body) |-> Cont(p.body[i])])

generate_balance_text(p) ==
    IF p.missing THEN Raised ELSE Rendered(<<HeaderOf("balance", p)>>)

generate_note_text(p) ==
    IF p.missing THEN Raised ELSE Rendered(<<HeaderOf("note", p)>>)

generate_open_text(p) ==
    IF p.missing THEN Raised ELSE Rendered(<<HeaderOf("open", p)>>)

generate_close_text(p) ==
    IF p.missing THEN Raised ELSE Rendered(<<HeaderOf("close", p)>>)

\* add_entry_to_file's dispatch on the payload's type; any other type raises
\* ValueError.
RenderForCreate(p) ==
    CASE p.type = "transaction" -> generate_transaction_text(p)
      [] p.type = "balance" -> generate_balance_text(p)
      [] p.type = "note" -> generate_note_text(p)
      [] p.type = "open" -> generate_open_text(p)
      [] p.type = "close" -> generate_close_text(p)
      [] OTHER -> Raised

\* The renderer each update method calls.
RenderForUpdate(kind, p) ==
    CASE kind = "transaction" -> generate_transaction_text(p)
      [] kind = "balance" -> generate_balance_text(p)
      [] OTHER -> generate_note_text(p)

\* date.today()
Today == 9

\* The earliest date of the snapshot's directives, 0 for None.
RECURSIVE FirstDate(_, _, _)
FirstDate(es, i, first) ==
    IF i > Len(es) THEN first
    ELSE FirstDate(es, i + 1,
                   IF first = 0 \/ es[i].date < first THEN es[i].date ELSE first)

\* The date of the snapshot's last directive (mutant).
find_last_directive_date(es) == IF es = <<>> THEN 0 ELSE es[Len(es)].date

find_first_directive_date(es) == FirstDate(es, 1, 0)

\* The text create_commodity_declaration builds: header, then one indented
\* line per metadata entry.
CommodityDeclText(es, sym, meta) ==
    LET first == find_first_directive_date(es)
        d == IF first = 0 THEN Today ELSE first
    IN  <<Hdr("commodity", d, sym)>> \o [i \in 1..Len(meta) |-> Cont(meta[i])]

\* The file create_commodity_declaration appends to: the main file, unless a
\* Price of the symbol (the scan stops there) or a Transaction with a posting
\* in the symbol (the scan goes on) names another.
RECURSIVE TargetFrom(_, _, _, _)
TargetFrom(es, i, sym, target) ==
    IF i > Len(es) THEN target
    ELSE IF es[i].kind = "price" /\ es[i].c = sym THEN es[i].filename
    ELSE IF /\ es[i].kind = "transaction"
            /\ \E j \in 1..Len(es[i].body) : es[i].body[j] = sym
         THEN TargetFrom(es, i + 1, sym, es[i].filename)
         ELSE TargetFrom(es, i + 1, sym, target)

CommodityTargetFile(es, sym) == TargetFrom(es, 1, sym, MainFile)

-----------------------------------------------------------------------------
\* Region location.

\* The scan of update_*_in_file and delete_entry_from_file, in 1-based lines:
\* from the header at line e, extend over the following lines while they are
\* indented and not blank.
\* The scan going on over blank lines as well (mutant).
RECURSIVE ScanEndThroughBlank(_, _)
ScanEndThroughBlank(lines, e) ==
    IF e < Len(lines)
       /\ (StripsEmpty(lines[e + 1]) \/ StartsIndented(lines[e + 1]))
    THEN ScanEndThroughBlank(lines, e + 1)
    ELSE e

RECURSIVE ScanEnd(_, _)
ScanEnd(lines, e) ==
    IF e < Len(lines)
       /\ ~StripsEmpty(lines[e + 1]) /\ StartsIndented(lines[e + 1])
    THEN ScanEnd(lines, e + 1)
    ELSE e

\* The scan of update_commodity_metadata: extend while the next line starts
\* with a space or a tab.
RECURSIVE ScanEndCommodity(_, _)
ScanEndCommodity(lines, e) ==
    IF e < Len(lines) /\ StartsIndented(lines[e + 1])
    THEN ScanEndCommodity(lines, e + 1)
    ELSE e

\* lines[start_line:end_line + 1] = repl for the directive at lineno.
SpliceAt(lines, lineno, repl) ==
    SliceAssign(lines, lineno - 1, ScanEnd(lines, lineno), repl)

-----------------------------------------------------------------------------
\* Backups.

\* shutil.copy2(f, f".backup.<stamp>"): content and modification time are
\* copied; a backup with the same path is overwritten.
BackupCopy(bk, f, stamp) ==
    {b \in bk : ~(b.file = f /\ b.stamp = stamp)}
    \cup {[file |-> f, stamp |-> stamp, content |-> files[f], mtime |-> mtime[f]]}

\* cleanup_old_backups sorting the newest first: the newest backups are the
\* ones removed (mutant).
cleanup_newest_first(bk, f) ==
    LET cands == {b \in bk : b.file = f}
        extra == Cardinality(cands) - max_backup_files
    IN  IF extra > 0
        THEN {bk \ R : R \in {S \in SUBSET cands :
                 /\ Cardinality(S) = extra
                 /\ \A r \in S, k \in cands \ S : r.mtime >= k.mtime}}
        ELSE {bk}

\* The backup sets cleanup_old_backups may leave: when the file has more than
\* max_backup_files backups, the ones with the oldest modification time are
\* removed (among equal times the order of glob decides).
cleanup_old_backups(bk, f) ==
    LET cands == {b \in bk : b.file = f}
        extra == Cardinality(cands) - max_backup_files
    IN  IF extra > 0
        THEN {bk \ R : R \in {S \in SUBSET cands :
                 /\ Cardinality(S) = extra
                 /\ \A r \in S, k \in cands \ S : r.mtime <= k.mtime}}
        ELSE {bk}

\* The backup sets create_backup_if_enabled(f) may leave.
create_backup_if_enabled(bk, f) ==
    IF ~create_backups THEN {bk}
    ELSE IF max_backup_files > 0
         THEN cleanup_old_backups(BackupCopy(bk, f, now), f)
         ELSE {BackupCopy(bk, f, now)}

-----------------------------------------------------------------------------
\* The initial state: the API object right after __init__ has loaded the
\* ledger.

\* Commodity symbols: 1 is declared in the main file, 2 is undeclared and
\* used by a posting of the included file, 4 is declared by a directive that
\* carries no lineno.
InitMain ==
    <<Include,
      Hdr("commodity", 1, 1), Cont(7),
      Hdr("transaction", 2, 1), Cont(3), Cont(3),
      HdrNoLine("note", 2, 2),
      Hdr("note", 2, 3),
      Blank>>

InitInc ==
    <<HdrNoLine("commodity", 1, 4),
      Hdr("transaction", 1, 4), Cont(2), Cont(3),
      Blank>>

InitFiles == [f \in FileNames |-> IF f = MainFile THEN InitMain ELSE InitInc]

\* The request threads of the server.
Threads == {1, 2}

\* The locals of a handler: the call and its arguments, the directive found,
\* the lines read from the file, the last line of the region the scan has
\* reached, the snapshot load_file returned, the entries list a read iterates,
\* the result returned.
NoLoc == [call |-> "-", id |-> <<"none", 0, 0, <<>>, "main", 0>>,
          p |-> [type |-> "-", date |-> 0, c |-> 0, body |-> <<>>,
                 missing |-> FALSE, bad |-> FALSE],
          entry |-> [kind |-> "none", date |-> 0, c |-> 0, body |-> <<>>,
                     filename |-> "-", lineno |-> 0],
          lines |-> <<>>, end_line |-> 0, snap |-> <<>>, seen |-> <<>>,
          res |-> <<>>]

\* No payload.
NoPayload == [type |-> "-", date |-> 0, c |-> 0, body |-> <<>>,
              missing |-> FALSE, bad |-> FALSE]

\* An API call: the method, the kind of directive it is about, and its
\* arguments.
Call(name, kind, id, p) == [name |-> name, kind |-> kind, id |-> id, p |-> p]

\* The call and what it returned: success or failure (with the error), the
\* source file of the directive it found, the file it wrote.
Result(call, ok, err, src, wrote) ==
    [name |-> call.name, kind |-> call.kind, id |-> call.id, p |-> call.p,
     ok |-> ok, err |-> err, src |-> src, wrote |-> wrote]

NoOp == Result(Call("init", "-", UnknownId, NoPayload), TRUE, "", "-", "-")

\* No get_entries call made yet; no directive under way.
NoPage == [entries |-> <<>>, total_count |-> 0, returned_count |-> 0,
           offset |-> 0, limit |-> 0, has_more |-> FALSE, types |-> {}]
NoRoundTrip == [stage |-> "-"]

\* __init__ with its arguments (create_backups, max_backup_files), then
\* load_data.
Init ==
    /\ files = InitFiles
    /\ mtime = [f \in FileNames |-> 0]
    /\ backups = {}
    /\ entries = LoadEntries(InitFiles)
    /\ errors = LoadErrors(InitFiles)
    /\ \E cfg \in {<<TRUE, 0>>, <<TRUE, 1>>, <<FALSE, 1>>} :
         /\ create_backups = cfg[1]
         /\ max_backup_files = cfg[2]
    /\ now = 0
    /\ nops = 0
    /\ op = NoOp
    /\ pc = [t \in Threads |-> "idle"]
    /\ loc = [t \in Threads |-> NoLoc]
    /\ page = NoPage
    /\ rt = NoRoundTrip

-----------------------------------------------------------------------------
\* What callers pass in.

Payload(type, d, c, body, missing, bad) ==
    [type |-> type, date |-> d, c |-> c, body |-> body,
     missing |-> missing, bad |-> bad]

Payloads ==
    {Payload("transaction", 2, 5, <<3, 3, 3>>, FALSE, FALSE),
     Payload("transaction", 2, 5, <<3, 3>>, TRUE, FALSE),
     Payload("note", 1, 6, <<>>, FALSE, FALSE),
     Payload("note", 1, 6, <<>>, FALSE, TRUE),
     Payload("note", 2, 3, <<>>, FALSE, FALSE),
     Payload("balance", 2, 7, <<>>, FALSE, FALSE),
     Payload("open", 1, 8, <<>>, FALSE, FALSE),
     Payload("pad", 1, 9, <<>>, FALSE, FALSE)}

\* The ids a caller can hold: those of the snapshot's directives, and one of
\* no directive.
KnownIds == {generate_entry_id(entries[i]) : i \in 1..Len(entries)}
Ids == KnownIds \cup {UnknownId}

Symbols == {1, 2, 4}
Metadatas == {<<>>, <<7, 8>>}

-----------------------------------------------------------------------------
\* The API calls, one action per call (requests served one at a time).

\* load_data that keeps the snapshot it has (mutant: the reload is missing).
load_data_stale(fs) == [entries |-> entries, errors |-> errors]

\* self.entries, self.errors after load_data on the files fs.
load_data(fs) == [entries |-> LoadEntries(fs), errors |-> LoadErrors(fs)]

Frame ==
    /\ nops' = nops + 1
    /\ UNCHANGED <<create_backups, max_backup_files, now, pc, loc, page, rt>>

\* The modification time a write gives a file: later than every earlier one.
WriteTime ==
    1 + (IF mtime[MainFile] > mtime[IncFile] THEN mtime[MainFile]
         ELSE mtime[IncFile])

\* A call that returns a failure without writing a ledger file.
NoWrite(call, err, src, bk) ==
    /\ backups' = bk
    /\ op' = Result(call, FALSE, err, src, "-")
    /\ UNCHANGED <<files, mtime, entries, errors>>

\* The tail of every mutation: write the whole file, reload_data, return
\* success; when the loader raises, the except clause returns a failure.
WriteReload(call, src, f, newlines, bk) ==
    /\ files' = [files EXCEPT ![f] = newlines]
    /\ mtime' = [mtime EXCEPT ![f] = WriteTime]
    /\ backups' = bk
    /\ \E raises \in BOOLEAN :
         IF raises
         THEN /\ UNCHANGED <<entries, errors>>
              /\ op' = Result(call, FALSE, "exception", src, f)
         ELSE /\ entries' = load_data(files').entries
              /\ errors' = load_data(files').errors
              /\ op' = Result(call, TRUE, "", src, f)

\* update_*_in_file once the directive e is found, with backups bk made: no
\* lineno is a failure, else render, locate, splice, write and reload.
UpdateLocated(call, e, p, bk) ==
    IF e.lineno = NoLineno
    THEN NoWrite(call, "nolineno", e.filename, bk)
    ELSE LET r == RenderForUpdate(call.kind, p)
         IN  IF r.raised
             THEN NoWrite(call, "exception", e.filename, bk)
             ELSE WriteReload(call, e.filename, MainFile,
                      JoinSplit(SpliceAt(files[MainFile], e.lineno, r.lines)), bk)

\* update_*_in_file taking its backup before the lookup, as add_entry_to_file
\* does (mutant).
UpdateKindInFileBackupFirst(kind, id, p) ==
    LET e == FindOfKind(entries, kind, id)
        call == Call("update", kind, id, p)
    IN  \E bk \in create_backup_if_enabled(backups, MainFile) :
          IF e = None
          THEN NoWrite(call, "notfound", "-", bk)
          ELSE UpdateLocated(call, e, p, bk)

\* update_transaction_in_file, update_balance_in_file, update_note_in_file:
\* the three methods differ in the lookup and the renderer only.
UpdateKindInFile(kind, id, p) ==
    LET e == FindOfKind(entries, kind, id)
        call == Call("update", kind, id, p)
    IN  IF e = None
        THEN NoWrite(call, "notfound", "-", backups)
        ELSE \E bk \in create_backup_if_enabled(backups, MainFile) :
               UpdateLocated(call, e, p, bk)

update_transaction_in_file(id, p) == UpdateKindInFile("transaction", id, p)
update_balance_in_file(id, p) == UpdateKindInFile("balance", id, p)
update_note_in_file(id, p) == UpdateKindInFile("note", id, p)

update_entry_in_file(id, p) ==
    /\ nops < MaxOps
    /\ Frame
    /\ CASE p.type = "transaction" -> update_transaction_in_file(id, p)
         [] p.type = "balance" -> update_balance_in_file(id, p)
         [] p.type = "note" -> update_note_in_file(id, p)
         [] OTHER -> NoWrite(Call("update", p.type, id, p), "unsupported", "-",
                             backups)

delete_entry_from_file(id) ==
    /\ nops < MaxOps
    /\ Frame
    /\ LET e == find_entry_by_id(entries, id)
           call == Call("delete", e.kind, id, NoPayload)
       IN  IF e = None
           THEN NoWrite(call, "notfound", "-", backups)
           ELSE \E bk \in create_backup_if_enabled(backups, MainFile) :
                  IF e.lineno = NoLineno
                  THEN NoWrite(call, "nolineno", e.filename, bk)
                  ELSE WriteReload(call, e.filename, MainFile,
                           JoinSplit(SpliceAt(files[MainFile], e.lineno, <<>>)), bk)

add_entry_to_file(p) ==
    /\ nops < MaxOps
    /\ Frame
    /\ \E bk \in create_backup_if_enabled(backups, MainFile) :
         LET r == RenderForCreate(p)
             call == Call("create", p.type, UnknownId, p)
         IN  IF r.raised
             THEN NoWrite(call, "exception", "-", bk)
             ELSE WriteReload(call, "-", MainFile,
                              AppendText(files[MainFile], r.lines), bk)

\* The arguments of a commodity call, as a payload: the symbol and the
\* metadata entries.
CommodityPayload(sym, meta) ==
    [type |-> "commodity", date |-> 0, c |-> sym, body |-> meta,
     missing |-> FALSE, bad |-> FALSE]

create_commodity_declaration(sym, meta) ==
    LET text == CommodityDeclText(entries, sym, meta)
        target == CommodityTargetFile(entries, sym)
        call == Call("commodity", "append", UnknownId, CommodityPayload(sym, meta))
    IN  \E bk \in create_backup_if_enabled(backups, target) :
          WriteReload(call, "-", target, AppendText(files[target], text), bk)

\* The first Commodity directive of the symbol.
RECURSIVE FindCommodity(_, _, _)
FindCommodity(es, i, sym) ==
    IF i > Len(es) THEN None
    ELSE IF es[i].kind = "commodity" /\ es[i].c = sym THEN es[i]
         ELSE FindCommodity(es, i + 1, sym)

\* header_prefix + " commodity " + symbol: the text of the located line
\* before " commodity ", which is the date of a commodity header and the whole
\* line of any other.
CommodityHeader(line, sym) ==
    IF line.t = "hdr" /\ line.k = "commodity"
    THEN [line EXCEPT !.c = sym]
    ELSE IF StartsIndented(line) \/ line.t = "blank" THEN Cont(sym)
         ELSE BadLine

update_commodity_metadata(sym, meta) ==
    /\ nops < MaxOps
    /\ Frame
    /\ LET ce == FindCommodity(entries, 1, sym)
       IN  IF ce = None \/ ce.lineno = NoLineno
           THEN create_commodity_declaration(sym, meta)
           ELSE LET target == ce.filename
                    lines == files[target]
                    call == Call("commodity", "inplace", UnknownId,
                                 CommodityPayload(sym, meta))
                IN  IF ce.lineno > Len(lines)
                    THEN create_commodity_declaration(sym, meta)
                    ELSE LET decl == <<CommodityHeader(lines[ce.lineno], sym)>>
                                     \o [i \in 1..Len(meta) |-> Cont(meta[i])]
                             new_lines == SliceAssign(lines, ce.lineno - 1,
                                              ScanEndCommodity(lines, ce.lineno), decl)
                         IN  WriteReload(call, target, target, JoinSplit(new_lines),
                                         BackupCopy(backups, target, now))

\* reload_data emptying the snapshot before it loads: a loader that raises
\* leaves no directives behind (mutant).
reload_data_clears ==
    /\ nops < MaxOps
    /\ Frame
    /\ UNCHANGED <<files, mtime, backups>>
    /\ LET call == Call("reload", "-", UnknownId, NoPayload)
       IN  \E raises \in BOOLEAN :
             IF raises
             THEN /\ entries' = <<>>
                  /\ errors' = 0
                  /\ op' = Result(call, FALSE, "exception", "-", "-")
             ELSE /\ entries' = load_data(files).entries
                  /\ errors' = load_data(files).errors
                  /\ op' = Result(call, TRUE, "", "-", "-")

\* The /reload endpoint: reload_data; a loader that raises is reported.
reload_data ==
    /\ nops < MaxOps
    /\ Frame
    /\ UNCHANGED <<files, mtime, backups>>
    /\ LET call == Call("reload", "-", UnknownId, NoPayload)
       IN  \E raises \in BOOLEAN :
             IF raises
             THEN /\ UNCHANGED <<entries, errors>>
                  /\ op' = Result(call, FALSE, "exception", "-", "-")
             ELSE /\ entries' = load_data(files).entries
                  /\ errors' = load_data(files).errors
                  /\ op' = Result(call, TRUE, "", "-", "-")

\* A second passes between two calls (only the order of the calls and whether
\* two of them share a second matter, so the clock never runs ahead of the
\* number of calls).
Tick ==
    /\ now < nops
    /\ nops < MaxOps
    /\ now' = now + 1
    /\ UNCHANGED <<files, mtime, backups, entries, errors, create_backups,
                   max_backup_files, nops, op, pc, loc, page, rt>>

Next ==
    \/ \E id \in Ids, p \in Payloads : update_entry_in_file(id, p)
    \/ \E id \in Ids : delete_entry_from_file(id)
    \/ \E p \in Payloads : add_entry_to_file(p)
    \/ \E sym \in Symbols, meta \in Metadatas : update_commodity_metadata(sym, meta)
    \/ reload_data
    \/ Tick

Spec == Init /\ [][Next]_vars

-----------------------------------------------------------------------------
\* The API object started on a ledger in which a line of spaces follows the
\* metadata of the commodity declaration.
InitSpaced ==
    /\ files = [f \in FileNames |->
                  IF f = MainFile
                  THEN <<Include,
                         Hdr("commodity", 1, 1), Cont(7),
                         WsLine,
                         Hdr("transaction", 2, 1), Cont(3), Cont(3),
                         Hdr("note", 2, 3),
                         Blank>>
                  ELSE InitInc]
    /\ mtime = [f \in FileNames |-> 0]
    /\ backups = {}
    /\ entries = LoadEntries(files)
    /\ errors = LoadErrors(files)
    /\ \E cfg \in {<<TRUE, 0>>, <<TRUE, 1>>, <<FALSE, 1>>} :
         /\ create_backups = cfg[1]
         /\ max_backup_files = cfg[2]
    /\ now = 0
    /\ nops = 0
    /\ op = NoOp
    /\ pc = [t \in Threads |-> "idle"]
    /\ loc = [t \in Threads |-> NoLoc]
    /\ page = NoPage
    /\ rt = NoRoundTrip

SpecSpaced == InitSpaced /\ [][Next]_vars

-----------------------------------------------------------------------------
\* The ledger is a text file its owner edits by hand; reload_data picks the
\* edit up.  The edit modelled here inserts one note directive as a new line i
\* of file f.

InsertedLine == Hdr("note", 1, 6)

ExternalInsert(f, i) ==
    /\ nops < MaxOps
    /\ Frame
    /\ files' = [files EXCEPT ![f] = SubSeq(@, 1, i - 1) \o <<InsertedLine>>
                                      \o SubSeq(@, i, Len(@))]
    /\ mtime' = [mtime EXCEPT ![f] = WriteTime]
    /\ op' = Result(Call("edit", "-", UnknownId, NoPayload), TRUE, "", "-", f)
    /\ UNCHANGED <<backups, entries, errors>>

NextEdit ==
    \/ Next
    \/ \E f \in FileNames : \E i \in 1..Len(files[f]) : ExternalInsert(f, i)

SpecEdit == Init /\ [][NextEdit]_vars

-----------------------------------------------------------------------------
\* The server's request threads.  app.run serves each request on a thread of
\* its own and the handlers share the one API object without a lock, so the
\* handlers interleave wherever a thread can be switched out: between the
\* lookup, the backup, the read, the write and the reload of a mutation,
\* between load_file and each of the attribute stores of load_data, and
\* between the two reads of self.entries that get_statistics makes.  (The
\* loader does not raise here; Spec covers that.)

ConcPayloads ==
    {Payload("transaction", 2, 5, <<3, 3, 3>>, FALSE, FALSE),
     Payload("note", 1, 6, <<>>, FALSE, FALSE)}

Enter(t, call, id, p, e, next) ==
    /\ pc[t] = "idle"
    /\ nops < MaxOps
    /\ nops' = nops + 1
    /\ pc' = [pc EXCEPT ![t] = next]
    /\ loc' = [loc EXCEPT ![t] = [NoLoc EXCEPT !.call = call, !.id = id,
                                                !.p = p, !.entry = e]]

Return(t, call, ok, err, src, wrote, res) ==
    /\ pc' = [pc EXCEPT ![t] = "idle"]
    /\ loc' = [loc EXCEPT ![t].res = res]
    /\ op' = Result(call, ok, err, src, wrote)

ThreadFrame == UNCHANGED <<create_backups, max_backup_files, now, page, rt>>

\* The call thread t is serving.
CallOf(t) ==
    Call(loc[t].call, IF loc[t].call = "update" THEN loc[t].p.type
                      ELSE loc[t].entry.kind, loc[t].id, loc[t].p)

\* update_*_in_file up to the lookup: not found returns at once.
BeginUpdate(t, id, p) ==
    LET e == FindOfKind(entries, p.type, id)
    IN  /\ Enter(t, "update", id, p, e, IF e = None THEN "idle" ELSE "backup")
        /\ op' = IF e = None
                 THEN Result(Call("update", p.type, id, p), FALSE, "notfound", "-", "-")
                 ELSE op
        /\ ThreadFrame
        /\ UNCHANGED <<files, mtime, backups, entries, errors>>

\* delete_entry_from_file up to the lookup.
BeginDelete(t, id) ==
    LET e == find_entry_by_id(entries, id)
    IN  /\ Enter(t, "delete", id, NoPayload, e, IF e = None THEN "idle" ELSE "backup")
        /\ op' = IF e = None
                 THEN Result(Call("delete", "none", id, NoPayload), FALSE,
                             "notfound", "-", "-")
                 ELSE op
        /\ ThreadFrame
        /\ UNCHANGED <<files, mtime, backups, entries, errors>>

\* create_backup_if_enabled()
TakeBackup(t) ==
    /\ pc[t] = "backup"
    /\ backups' \in create_backup_if_enabled(backups, MainFile)
    /\ pc' = [pc EXCEPT ![t] = "read"]
    /\ ThreadFrame
    /\ UNCHANGED <<files, mtime, entries, errors, nops, op, loc>>

\* The text that replaces the directive's region: the rendered payload of an
\* update, nothing for a delete.
Replacement(t) ==
    IF loc[t].call = "update" THEN RenderForUpdate(loc[t].p.type, loc[t].p).lines
    ELSE <<>>

\* f.read() of the main file; a directive without lineno returns a failure.
ReadFile(t) ==
    /\ pc[t] = "read"
    /\ ThreadFrame
    /\ UNCHANGED <<files, mtime, backups, entries, errors, nops>>
    /\ IF loc[t].entry.lineno = NoLineno
       THEN Return(t, CallOf(t), FALSE, "nolineno", loc[t].entry.filename, "-", <<>>)
       ELSE /\ pc' = [pc EXCEPT ![t] = "scan"]
            /\ loc' = [loc EXCEPT ![t].lines = files[MainFile],
                                  ![t].end_line = loc[t].entry.lineno]
            /\ UNCHANGED op

\* One iteration of the scan that never advances end_line (mutant: the
\* increment is missing).
ScanLineStuck(t) ==
    /\ pc[t] = "scan"
    /\ LET lines == loc[t].lines
           e == loc[t].end_line
       IN  IF e < Len(lines)
              /\ ~StripsEmpty(lines[e + 1]) /\ StartsIndented(lines[e + 1])
           THEN UNCHANGED <<pc, loc>>
           ELSE /\ pc' = [pc EXCEPT ![t] = "write"]
                /\ UNCHANGED loc
    /\ ThreadFrame
    /\ UNCHANGED <<files, mtime, backups, entries, errors, nops, op>>

\* One iteration of the scan that breaks at a line that is not indented only
\* (mutant: the test for a blank line is missing).
ScanLineThroughBlank(t) ==
    /\ pc[t] = "scan"
    /\ LET lines == loc[t].lines
           e == loc[t].end_line
       IN  IF e < Len(lines)
              /\ (StripsEmpty(lines[e + 1]) \/ StartsIndented(lines[e + 1]))
           THEN /\ loc' = [loc EXCEPT ![t].end_line = e + 1]
                /\ UNCHANGED pc
           ELSE /\ pc' = [pc EXCEPT ![t] = "write"]
                /\ UNCHANGED loc
    /\ ThreadFrame
    /\ UNCHANGED <<files, mtime, backups, entries, errors, nops, op>>

\* One iteration of the scan for the end of the region: while a next line
\* exists, break when it is blank or not indented, else end_line += 1.
ScanLine(t) ==
    /\ pc[t] = "scan"
    /\ LET lines == loc[t].lines
           e == loc[t].end_line
       IN  IF e < Len(lines)
              /\ ~StripsEmpty(lines[e + 1]) /\ StartsIndented(lines[e + 1])
           THEN /\ loc' = [loc EXCEPT ![t].end_line = e + 1]
                /\ UNCHANGED pc
           ELSE /\ pc' = [pc EXCEPT ![t] = "write"]
                /\ UNCHANGED loc
    /\ ThreadFrame
    /\ UNCHANGED <<files, mtime, backups, entries, errors, nops, op>>

\* The splice of the lines read, lines[start_line:end_line + 1] = replacement,
\* written over the file.
WriteFile(t) ==
    /\ pc[t] = "write"
    /\ files' = [files EXCEPT ![MainFile] =
                    JoinSplit(SliceAssign(loc[t].lines, loc[t].entry.lineno - 1,
                                          loc[t].end_line, Replacement(t)))]
    /\ mtime' = [mtime EXCEPT ![MainFile] = WriteTime]
    /\ pc' = [pc EXCEPT ![t] = "load"]
    /\ ThreadFrame
    /\ UNCHANGED <<backups, entries, errors, nops, op, loc>>

\* The /reload endpoint entering reload_data.
BeginReload(t) ==
    /\ Enter(t, "reload", UnknownId, NoPayload, None, "load")
    /\ ThreadFrame
    /\ UNCHANGED <<files, mtime, backups, entries, errors, op>>

\* load_data: loader.load_file returns the new snapshot ...
LoadFile(t) ==
    /\ pc[t] = "load"
    /\ loc' = [loc EXCEPT ![t].snap = load_data(files)]
    /\ pc' = [pc EXCEPT ![t] = "store_entries"]
    /\ ThreadFrame
    /\ UNCHANGED <<files, mtime, backups, entries, errors, nops, op>>

\* ... which the tuple assignment stores attribute by attribute: self.entries,
StoreEntries(t) ==
    /\ pc[t] = "store_entries"
    /\ entries' = loc[t].snap.entries
    /\ pc' = [pc EXCEPT ![t] = "store_errors"]
    /\ ThreadFrame
    /\ UNCHANGED <<files, mtime, backups, errors, nops, op, loc>>

\* then self.errors; the call returns success.
StoreErrors(t) ==
    /\ pc[t] = "store_errors"
    /\ errors' = loc[t].snap.errors
    /\ Return(t, CallOf(t), TRUE, "",
              loc[t].entry.filename,
              IF loc[t].call = "reload" THEN "-" ELSE MainFile, <<>>)
    /\ ThreadFrame
    /\ UNCHANGED <<files, mtime, backups, entries, nops>>

\* get_entries: one iteration over the list self.entries names when the loop
\* starts; the result is made of that list's directives.
get_entries(t) ==
    /\ Enter(t, "get_entries", UnknownId, NoPayload, None, "idle")
    /\ op' = Result(Call("get_entries", "-", UnknownId, NoPayload), TRUE, "", "-", "-")
    /\ ThreadFrame
    /\ UNCHANGED <<files, mtime, backups, entries, errors>>

\* The statistics of one snapshot: the number of journal directives and the
\* number of accounts.
JournalCount(es) ==
    Cardinality({i \in 1..Len(es) :
        es[i].kind \in {"transaction", "note", "balance", "pad"}})

\* self.get_accounts(): the accounts the directives of self.entries name (a
\* directive's account is part of its content c).
get_accounts(es) ==
    {es[i].c : i \in {j \in 1..Len(es) : es[j].kind # "commodity"}}

StatsOf(es) ==
    [total_entries |-> JournalCount(es),
     account_count |-> Cardinality(get_accounts(es))]

\* get_statistics, first part: the loop over self.entries that counts.
BeginStatistics(t) ==
    /\ Enter(t, "get_statistics", UnknownId, NoPayload, None, "accounts")
    /\ ThreadFrame
    /\ UNCHANGED <<files, mtime, backups, entries, errors, op>>

CountEntries(t) ==
    /\ pc[t] = "accounts"
    /\ loc[t].seen = <<>>
    /\ loc' = [loc EXCEPT ![t].seen = <<entries>>]
    /\ ThreadFrame
    /\ UNCHANGED <<files, mtime, backups, entries, errors, nops, op, pc>>

\* get_statistics, second part: len(self.get_accounts()) reads self.entries
\* again; the result combines the two.
CountAccounts(t) ==
    /\ pc[t] = "accounts"
    /\ loc[t].seen # <<>>
    /\ Return(t, Call("get_statistics", "-", UnknownId, NoPayload), TRUE, "", "-", "-",
              <<[total_entries |-> JournalCount(loc[t].seen[1]),
                 account_count |-> Cardinality(get_accounts(entries))]>>)
    /\ ThreadFrame
    /\ UNCHANGED <<files, mtime, backups, entries, errors, nops>>

NextConc ==
    \E t \in Threads :
        \/ \E id \in Ids, p \in ConcPayloads : BeginUpdate(t, id, p)
        \/ \E id \in Ids : BeginDelete(t, id)
        \/ TakeBackup(t)
        \/ ReadFile(t)
        \/ ScanLine(t)
        \/ WriteFile(t)
        \/ BeginReload(t)
        \/ LoadFile(t)
        \/ StoreEntries(t)
        \/ StoreErrors(t)
        \/ get_entries(t)
        \/ BeginStatistics(t)
        \/ CountEntries(t)
        \/ CountAccounts(t)

SpecConc == Init /\ [][NextConc]_vars

\* The except clause of a mutation: an error raised by a step of the try body
\* (the copy of the backup, the read, the write, the loader) ends the call
\* with a failure result; what was written before the error stays written.
ExceptClause(t) ==
    /\ pc[t] \in {"backup", "read", "write", "load"}
    /\ loc[t].call \in {"update", "delete"}
    /\ Return(t, CallOf(t), FALSE, "exception", loc[t].entry.filename,
              IF pc[t] = "load" THEN MainFile ELSE "-", <<>>)
    /\ ThreadFrame
    /\ UNCHANGED <<files, mtime, backups, entries, errors, nops>>

\* A mutation that has started runs on: the steps of thread t after its entry.
RunsOn(t) ==
    \/ TakeBackup(t)
    \/ ReadFile(t)
    \/ ScanLine(t)
    \/ WriteFile(t)
    \/ LoadFile(t)
    \/ StoreEntries(t)
    \/ StoreErrors(t)

\* The mutations on the request threads, with the errors of their steps, and
\* the two mutations whose handlers are not split into steps (create and the
\* commodity-metadata update).  The operating system schedules every thread
\* that can run, so a handler that has started keeps taking steps.
NextLive ==
    \/ \E t \in Threads :
         \/ \E id \in Ids, p \in ConcPayloads : BeginUpdate(t, id, p)
         \/ \E id \in Ids : BeginDelete(t, id)
         \/ RunsOn(t)
         \/ ExceptClause(t)
    \/ \E p \in Payloads : add_entry_to_file(p)
    \/ \E sym \in Symbols, meta \in Metadatas : update_commodity_metadata(sym, meta)

SpecLive == Init /\ [][NextLive]_vars /\ \A t \in Threads : WF_vars(RunsOn(t))

-----------------------------------------------------------------------------
\* GET /entries: the query parameters limit and offset are what int() makes of
\* the text a client sends, any integer; types is the list of directive types
\* asked for, none for the default.

MaxArg == 5

\* s[a:b] of a list: a negative index counts from the end, and every index is
\* clamped to the list.
PySlice(s, a, b) ==
    LET n == Len(s)
        Index(i) == IF i < 0 THEN (IF i + n < 0 THEN 0 ELSE i + n) ELSE Min(i, n)
    IN  SubSeq(s, Index(a) + 1, Index(b))

\* The sort putting a directive before those of its date already in place
\* (mutant: ties come out in reverse order).
RECURSIVE InsertByDateTiesFirst(_, _)
InsertByDateTiesFirst(e, s) ==
    IF s = <<>> THEN <<e>>
    ELSE IF Head(s).date <= e.date THEN <<e>> \o s
         ELSE <<Head(s)>> \o InsertByDateTiesFirst(e, Tail(s))

\* entries.sort(key=lambda x: x['date'], reverse=True): list.sort is stable,
\* also in reverse, so a directive goes behind every directive of the same or
\* a later date that precedes it in the list.
RECURSIVE InsertByDate(_, _)
InsertByDate(e, s) ==
    IF s = <<>> THEN <<e>>
    ELSE IF Head(s).date < e.date THEN <<e>> \o s
         ELSE <<Head(s)>> \o InsertByDate(e, Tail(s))

RECURSIVE SortByDate(_)
SortByDate(s) ==
    IF s = <<>> THEN <<>>
    ELSE InsertByDate(s[Len(s)], SortByDate(SubSeq(s, 1, Len(s) - 1)))

\* The loop over self.entries: the directives of the types asked for, in the
\* order of the snapshot.
FilterTypes(es, types) ==
    LET entry_types == IF types = {} THEN {"transaction", "balance", "pad", "note"}
                       ELSE types
    IN  SelectSeq(es, LAMBDA e : e.kind \in entry_types)

\* What get_entries returns.
get_entries_page(es, types, offset, limit) ==
    LET sorted == SortByDate(FilterTypes(es, types))
        sliced == PySlice(sorted, offset, offset + limit)
    IN  [entries |-> sliced,
         total_count |-> Len(sorted),
         returned_count |-> Len(sliced),
         offset |-> offset,
         limit |-> limit,
         has_more |-> offset + Len(sliced) < Len(sorted),
         types |-> types]

\* The route: a get_entries call with the client's parameters; page is the
\* response.
GetEntries(types, offset, limit) ==
    /\ nops < MaxOps
    /\ nops' = nops + 1
    /\ op' = Result(Call("get_entries", "-", UnknownId, NoPayload), TRUE, "", "-", "-")
    /\ page' = get_entries_page(entries, types, offset, limit)
    /\ UNCHANGED <<files, mtime, backups, entries, errors, create_backups,
                   max_backup_files, now, pc, loc, rt>>

\* Queries between the mutations that change the snapshot.
NextQuery ==
    \/ \E p \in ConcPayloads : add_entry_to_file(p)
    \/ \E id \in Ids : delete_entry_from_file(id)
    \/ \E types \in {{}, {"note"}, {"transaction", "balance"}},
          offset \in -2..MaxArg, limit \in -2..MaxArg :
         GetEntries(types, offset, limit)

SpecQuery == Init /\ [][NextQuery]_vars

\* The loop of get_entries giving up at the first directive that raises
\* (mutant: the except clause ends the loop).
get_entries_loop_aborts(es, types, failing) ==
    LET entry_types == IF types = {} THEN {"transaction", "balance", "pad", "note"}
                       ELSE types
        raised == {i \in 1..Len(es) : es[i].kind \in entry_types /\ es[i] \in failing}
        last == IF raised = {} THEN Len(es)
                ELSE (CHOOSE i \in raised : \A j \in raised : i <= j) - 1
    IN  SelectSeq(SubSeq(es, 1, last), LAMBDA e : e.kind \in entry_types)

\* The loop of get_entries with its try block: a directive of a type not asked
\* for is passed over; a directive whose filtering or conversion raises (those
\* of failing) is logged by the except clause and the loop continues; every
\* other directive is appended.
get_entries_loop(es, types, failing) ==
    LET entry_types == IF types = {} THEN {"transaction", "balance", "pad", "note"}
                       ELSE types
    IN  SelectSeq(es, LAMBDA e : e.kind \in entry_types /\ e \notin failing)

\* A get_entries call during which the directives of failing raise; failed is
\* what the except clause has logged.
GetEntriesRaising(types, failing) ==
    /\ nops < MaxOps
    /\ nops' = nops + 1
    /\ op' = Result(Call("get_entries", "-", UnknownId, NoPayload), TRUE, "", "-", "-")
    /\ page' = get_entries_page(get_entries_loop(entries, types, failing), types,
                                0, MaxArg)
                @@ [failed |-> {e \in failing :
                                   e.kind \in (IF types = {}
                                               THEN {"transaction", "balance", "pad", "note"}
                                               ELSE types)}]
    /\ UNCHANGED <<files, mtime, backups, entries, errors, create_backups,
                   max_backup_files, now, pc, loc, rt>>

NextRaising ==
    \/ \E p \in ConcPayloads : add_entry_to_file(p)
    \/ \E id \in Ids : delete_entry_from_file(id)
    \/ \E types \in {{}, {"note"}, {"transaction", "balance"}},
          failing \in SUBSET {entries[i] : i \in 1..Len(entries)} :
         GetEntriesRaising(types, failing)

SpecRaising == Init /\ [][NextRaising]_vars

-----------------------------------------------------------------------------
\* A directive in detail, for what a client does with a query result: it gets
\* the directive as a dictionary (entry_to_dict), sends the dictionary back as
\* a payload, the payload is rendered and the loader parses the rendered text.
\* Here a directive has its strings, its metadata values with their types and
\* its postings; the text is a sequence of lines, each a record of the tokens
\* the renderer wrote.

\* A text with a double quote in it.
QuotedText == "a\"b"
HasQuote(str) == str = QuotedText

\* Metadata keys: the two the parser sets and one the user wrote.
MetaKeys == <<"filename", "lineno", "memo">>
Absent == [type |-> "absent", v |-> ""]
LocationMeta == [k \in {"filename", "lineno", "memo"} |->
    CASE k = "filename" -> [type |-> "str", v |-> "main.beancount"]
      [] k = "lineno" -> [type |-> "int", v |-> "4"]
      [] OTHER -> Absent]
\* The user's metadata value: none, a string, a number.
UserMetas == {Absent, [type |-> "str", v |-> "x"], [type |-> "num", v |-> "5"]}

\* A posting: units, per-unit cost and per-unit price ("" for none), as the
\* loader's booking leaves them.
Posting(cost, price) == [amount |-> "1", cost |-> cost, price |-> price]

NoDirective == [kind |-> "none"]
Transaction(payee, narration, memo, postings) ==
    [kind |-> "transaction", date |-> "2024-01-01", payee |-> payee,
     narration |-> narration, comment |-> "", tolerance |-> "",
     postings |-> postings, meta |-> [LocationMeta EXCEPT !["memo"] = memo]]
Note(comment, memo) ==
    [kind |-> "note", date |-> "2024-01-01", payee |-> "", narration |-> "",
     comment |-> comment, tolerance |-> "", postings |-> <<>>,
     meta |-> [LocationMeta EXCEPT !["memo"] = memo]]
Balance(tolerance, memo) ==
    [kind |-> "balance", date |-> "2024-01-01", payee |-> "", narration |-> "",
     comment |-> "", tolerance |-> tolerance, postings |-> <<>>,
     meta |-> [LocationMeta EXCEPT !["memo"] = memo]]

\* The directives the loader hands out (payee "" is None, tolerance "" is
\* None).
Directives ==
    {Transaction(payee, narration, memo, postings) :
        payee \in {"", "p"}, narration \in {"", "n", QuotedText},
        memo \in UserMetas,
        postings \in {<<Posting("", "")>>, <<Posting("", ""), Posting("2", "3")>>}}
    \cup {Note(comment, memo) : comment \in {"n", QuotedText}, memo \in UserMetas}
    \cup {Balance(tolerance, memo) : tolerance \in {"", "0.01"}, memo \in UserMetas}

\* entry_to_dict's safe_metadata: every key of entry.meta, filename and lineno
\* included; None, str, int, float and bool values as they are, any other
\* value as its str().
SafeMetadata(meta) ==
    [k \in DOMAIN meta |->
        IF meta[k].type \in {"absent", "str", "int"} THEN meta[k]
        ELSE [type |-> "str", v |-> meta[k].v]]

\* transaction_to_dict_data's posting: cost has number, currency, date and
\* label, price has amount and currency; neither has isTotal.
PostingData(po) ==
    [amount |-> po.amount, cost |-> po.cost, price |-> po.price]

entry_to_dict(d) ==
    [type |-> d.kind, date |-> d.date, metadata |-> SafeMetadata(d.meta),
     payee |-> d.payee, narration |-> d.narration, comment |-> d.comment,
     tolerance |-> d.tolerance,
     postings |-> [i \in 1..Len(d.postings) |-> PostingData(d.postings[i])]]

\* The payee and narration strings of the header.
PayeeNarration(payee, narration) ==
    IF payee # "" /\ narration # "" THEN <<payee, narration>>
    ELSE IF payee # "" THEN <<payee, "">>
    ELSE IF narration # "" THEN <<narration>>
    ELSE <<"">>

\* One line  key: "value"  per metadata entry.
MetadataLines(metadata) ==
    LET present == SelectSeq(MetaKeys, LAMBDA k : metadata[k].type # "absent")
    IN  [i \in 1..Len(present) |->
            [t |-> "meta", key |-> present[i], v |-> metadata[present[i]].v]]

\* A posting line: cost in single braces and price after one @ unless isTotal
\* is set, which a query result never has.
PostingLine(po) ==
    [t |-> "posting", amount |-> po.amount,
     cost |-> IF po.cost = "" THEN <<>> ELSE <<"{", po.cost>>,
     price |-> IF po.price = "" THEN <<>> ELSE <<"@", po.price>>]

\* generate_transaction_text, token by token.
TransactionText(dict) ==
    <<[t |-> "txn", date |-> dict.date,
       strs |-> PayeeNarration(dict.payee, dict.narration)]>>
    \o MetadataLines(dict.metadata)
    \o [i \in 1..Len(dict.postings) |-> PostingLine(dict.postings[i])]

\* generate_note_text: date, account and comment; the metadata is not
\* rendered.
NoteText(dict) ==
    <<[t |-> "note", date |-> dict.date, comment |-> dict.comment]>>

\* generate_balance_text: with a tolerance the line reads
\* "amount currency ~ tolerance currency"; the metadata is not rendered.
BalanceText(dict) ==
    <<[t |-> "balance", date |-> dict.date, tolerance |-> dict.tolerance,
       form |-> IF dict.tolerance # "" THEN "amount currency ~ tolerance currency"
                ELSE "amount currency"]>>

RenderDict(dict) ==
    CASE dict.type = "transaction" -> TransactionText(dict)
      [] dict.type = "balance" -> BalanceText(dict)
      [] OTHER -> NoteText(dict)

\* The metadata the parser gives a directive: new_metadata(filename, lineno),
\* updated with the key: value lines under the header, each value a string.
ParsedMeta(text) ==
    [k \in {"filename", "lineno", "memo"} |->
        IF \E i \in 1..Len(text) : text[i].t = "meta" /\ text[i].key = k
        THEN [type |-> "str",
              v |-> text[CHOOSE i \in 1..Len(text) :
                             text[i].t = "meta" /\ text[i].key = k].v]
        ELSE LocationMeta[k]]

\* Cost and price of a parsed posting, per unit: a total ({{ }} or @@) is
\* divided by the units.
PerUnit(tok) ==
    IF tok = <<>> THEN ""
    ELSE IF tok[1] \in {"{", "@"} THEN tok[2] ELSE "total/units"

ParsedPostings(text) ==
    LET pls == SelectSeq(text, LAMBDA l : l.t = "posting")
    IN  [i \in 1..Len(pls) |->
            [amount |-> pls[i].amount, cost |-> PerUnit(pls[i].cost),
             price |-> PerUnit(pls[i].price)]]

\* A string the lexer cannot read between double quotes.
Unreadable(text) ==
    \E i \in 1..Len(text) :
        \/ text[i].t = "txn" /\ \E j \in 1..Len(text[i].strs) : HasQuote(text[i].strs[j])
        \/ text[i].t = "meta" /\ HasQuote(text[i].v)
        \/ text[i].t = "note" /\ HasQuote(text[i].comment)

\* The loader on the rendered text of one directive: the directive, or none
\* when the text is a syntax error.  The grammar reads one string as the
\* narration and two as payee and narration, and a balance amount as
\* "amount currency" or "amount ~ tolerance currency".
ParseText(text) ==
    IF Unreadable(text) THEN NoDirective
    ELSE CASE text[1].t = "txn" ->
                [kind |-> "transaction", date |-> text[1].date,
                 payee |-> IF Len(text[1].strs) = 2 THEN text[1].strs[1] ELSE "",
                 narration |-> text[1].strs[Len(text[1].strs)],
                 comment |-> "", tolerance |-> "",
                 postings |-> ParsedPostings(text), meta |-> ParsedMeta(text)]
           [] text[1].t = "note" ->
                [kind |-> "note", date |-> text[1].date, payee |-> "",
                 narration |-> "", comment |-> text[1].comment, tolerance |-> "",
                 postings |-> <<>>, meta |-> ParsedMeta(text)]
           [] OTHER ->
                IF text[1].form = "amount currency"
                THEN [kind |-> "balance", date |-> text[1].date, payee |-> "",
                      narration |-> "", comment |-> "", tolerance |-> "",
                      postings |-> <<>>, meta |-> ParsedMeta(text)]
                ELSE IF text[1].form = "amount ~ tolerance currency"
                THEN [kind |-> "balance", date |-> text[1].date, payee |-> "",
                      narration |-> "", comment |-> "",
                      tolerance |-> text[1].tolerance,
                      postings |-> <<>>, meta |-> ParsedMeta(text)]
                ELSE NoDirective

RoundTripFrame ==
    UNCHANGED <<files, mtime, backups, entries, errors, create_backups,
                max_backup_files, now, nops, op, pc, loc, page>>

\* The loader hands out directive d.
LoadDirective(d) ==
    /\ rt.stage = "-"
    /\ rt' = [stage |-> "directive", d |-> d]
    /\ RoundTripFrame

\* A query returns it as a dictionary.
QueryDirective ==
    /\ rt.stage = "directive"
    /\ rt' = [stage |-> "dict", d |-> rt.d, dict |-> entry_to_dict(rt.d)]
    /\ RoundTripFrame

\* The dictionary comes back as a payload and is rendered.
RenderPayload ==
    /\ rt.stage = "dict"
    /\ rt' = [stage |-> "text", d |-> rt.d, text |-> RenderDict(rt.dict)]
    /\ RoundTripFrame

\* The loader parses the rendered text.
ParseRendered ==
    /\ rt.stage = "text"
    /\ rt' = [stage |-> "parsed", d |-> rt.d, back |-> ParseText(rt.text)]
    /\ RoundTripFrame

\* The line a write path makes of one metadata entry of a payload.
\* generate_transaction_text formats transaction and posting metadata as
\* key: "{value}" whatever the value is; create_commodity_declaration and
\* update_commodity_metadata test isinstance(v, str) and write any other value
\* as it prints.
metadata_line(path, value) ==
    [t |-> "meta", path |-> path, v |-> value.v,
     indent |-> IF path = "posting" THEN 4 ELSE 2,
     quoted |-> IF path \in {"transaction", "posting"} THEN TRUE
                ELSE value.type = "str"]

\* A write path renders a metadata entry whose value is a string, a number or
\* a boolean.
RenderMetadata(path, value) ==
    /\ rt.stage = "-"
    /\ rt' = [stage |-> "metadata", value |-> value,
              line |-> metadata_line(path, value)]
    /\ RoundTripFrame

NextRoundTrip ==
    \/ \E d \in Directives : LoadDirective(d)
    \/ QueryDirective
    \/ RenderPayload
    \/ ParseRendered
    \/ \E path \in {"transaction", "posting", "commodity"},
          value \in {[type |-> "str", v |-> "x"], [type |-> "num", v |-> "5"],
                     [type |-> "bool", v |-> "True"]} :
         RenderMetadata(path, value)

SpecRoundTrip == Init /\ [][NextRoundTrip]_vars

-----------------------------------------------------------------------------
\* Properties.

\* The calls that change a ledger file.
Mutations == {"create", "update", "delete", "commodity"}

\* The step is a call of one of the named methods: op' is that call.
Called(names) == nops' = nops + 1 /\ op'.name \in names

\* The semantic content of a directive: every field but the location metadata.
Semantic(e) == <<e.kind, e.date, e.c, e.body>>

\* The directive e of file e.filename is the only one of the snapshot es with
\* its semantic content.
UniqueIn(es, e) ==
    Cardinality({i \in 1..Len(es) :
        Semantic(es[i]) = Semantic(e) /\ es[i].filename = e.filename}) = 1

\* C1: inserting an unrelated directive elsewhere in the file and reloading
\* does not change the identity of a directive whose semantic content is
\* unchanged: a directive of the snapshot before the reload and the directive
\* of the same file with the same content after it have the same id.
C1_IdentityStableUnderInsertion ==
    [][(op.name = "edit" /\ Called({"reload"}) /\ op'.ok) =>
        \A i \in 1..Len(entries), j \in 1..Len(entries') :
            (/\ Semantic(entries[i]) = Semantic(entries'[j])
             /\ entries[i].filename = entries'[j].filename
             /\ UniqueIn(entries, entries[i])
             /\ UniqueIn(entries', entries'[j]))
            => generate_entry_id(entries[i]) = generate_entry_id(entries'[j])]_vars

\* The update call of the step found a directive that has no lineno.
UpdateFoundNoLineno ==
    /\ Called({"update"})
    /\ op'.kind \in {"transaction", "balance", "note"}
    /\ FindOfKind(entries, op'.kind, op'.id) # None
    /\ FindOfKind(entries, op'.kind, op'.id).lineno = NoLineno

\* C2: an update of a transaction, balance or note whose
\* directive has no lineno falls back to a create: it never fails for the
\* missing location, and a payload that renders is appended to the file.
C2_UpdateFallsBackToCreate ==
    [][UpdateFoundNoLineno =>
        /\ op'.err # "nolineno"
        /\ ~RenderForUpdate(op'.kind, op'.p).raised =>
             files'[MainFile] = AppendText(files[MainFile],
                                    RenderForUpdate(op'.kind, op'.p).lines)]_vars

\* C3: update and delete splice the file the directive was parsed from: no
\* other file's content changes.
C3_SplicesSourceFile ==
    [][(/\ Called({"update", "delete"})
        /\ find_entry_by_id(entries, op'.id) # None) =>
        \A f \in FileNames :
            f # find_entry_by_id(entries, op'.id).filename => files'[f] = files[f]]_vars

\* No directive of the snapshot es has the id.
MatchesNone(es, id) == \A i \in 1..Len(es) : generate_entry_id(es[i]) # id

\* C4: an update (of a transaction, balance or note) or a delete with an id
\* that matches no directive of the snapshot reports not-found and mutates
\* nothing: the files, the backups and the snapshot are unchanged.
C4_NotFoundMutatesNothing ==
    [][(/\ Called({"update", "delete"})
        /\ op'.name = "update" => op'.p.type \in {"transaction", "balance", "note"}
        /\ MatchesNone(entries, op'.id)) =>
        /\ ~op'.ok
        /\ op'.err = "notfound"
        /\ UNCHANGED <<files, mtime, backups, entries, errors>>]_vars

\* An update with an unknown id, backups being enabled, has returned.
C4_Witness ==
    /\ op.name = "update"
    /\ op.p.type = "note"
    /\ op.id = UnknownId
    /\ create_backups

\* C5: with backups enabled, when a mutation has written a file there is a
\* backup of that file whose content is the file's content before the write.
C5_BackupBeforeWrite ==
    [][(create_backups /\ Called(Mutations) /\ op'.wrote # "-") =>
        \E b \in backups' :
            b.file = op'.wrote /\ b.content = files[op'.wrote]]_vars

\* A second mutation has written a file, with backups enabled and capped.
C5_Witness ==
    /\ create_backups
    /\ max_backup_files = 1
    /\ op.name \in Mutations
    /\ op.wrote # "-"
    /\ nops = 2
    /\ \E b \in backups : b.mtime > 0

\* C6: when a mutation returns success, the snapshot is what the loader makes
\* of the files as the mutation wrote them.
C6_ReloadedOnSuccess ==
    (op.name \in Mutations /\ op.ok) =>
        /\ op.wrote # "-"
        /\ entries = LoadEntries(files)
        /\ errors = LoadErrors(files)

\* A delete has succeeded.
C6_Witness ==
    /\ op.name = "delete"
    /\ op.ok
    /\ entries # LoadEntries(InitFiles)

\* The payload's type is one the create (the update) does not support.
Unsupported(name, p) ==
    IF name = "create"
    THEN p.type \notin {"transaction", "balance", "note", "open", "close"}
    ELSE p.type \notin {"transaction", "balance", "note"}

\* C7: a create or update whose payload has an unsupported kind or lacks a
\* field the renderer requires returns a failure and leaves the ledger files
\* as they were.
C7_RenderErrorWritesNothing ==
    [][(/\ Called({"create", "update"})
        /\ op'.p.missing \/ Unsupported(op'.name, op'.p)) =>
        /\ ~op'.ok
        /\ op'.wrote = "-"
        /\ files' = files]_vars

\* An update that found its transaction was given a payload without a
\* required field.
C7_Witness ==
    /\ op.name = "update"
    /\ op.p.missing
    /\ op.src # "-"

\* C8: the ledger stays loadable after every edit: the loader reports no
\* error for the files.
C8_StaysLoadable == LoadErrors(files) = 0


\* C9: mutations are serialized: no splice is applied with a line number taken
\* from a snapshot older than the file content it is applied to.  When a
\* handler writes its splice, the file still holds the lines the handler read,
\* and the directive it found, line number included, is a directive of the
\* ledger as it then is.
C9_NoStaleSplice ==
    [][\A t \in Threads :
          (pc[t] = "write" /\ pc'[t] = "load")
              => /\ files[MainFile] = loc[t].lines
                 /\ \E i \in 1..Len(LoadEntries(files)) :
                        LoadEntries(files)[i] = loc[t].entry]_vars

Continues(l) == StartsIndented(l) /\ ~StripsEmpty(l)

\* The last line of the region that starts at line s of lines: s itself and
\* the continuation lines that follow it without a gap.
RegionEnd(lines, s) ==
    CHOOSE e \in s..Len(lines) :
        /\ \A j \in (s + 1)..e : Continues(lines[j])
        /\ e = Len(lines) \/ ~Continues(lines[e + 1])

\* The text that replaces the region in the call of the step.
ReplacementOf(call) ==
    IF call.name = "update" THEN RenderForUpdate(call.kind, call.p).lines
    ELSE <<>>

\* C11: a splice changes only the located region.  When an update or a delete
\* has written the file, the file is the lines before the directive's line,
\* then the replacement (none for a delete), then the lines after the region's
\* last line, unchanged and in order; a delete of a one-line directive removes
\* exactly that line.
C11_SpliceChangesOnlyRegion ==
    [][(/\ Called({"update", "delete"})
        /\ op'.wrote # "-"
        /\ FindOfKind(entries, op'.kind, op'.id).lineno <= Len(files[op'.wrote])) =>
        LET lines == files[op'.wrote]
            s == FindOfKind(entries, op'.kind, op'.id).lineno
            e == RegionEnd(lines, s)
        IN  /\ files'[op'.wrote] =
                  JoinSplit(SubSeq(lines, 1, s - 1) \o ReplacementOf(op')
                            \o SubSeq(lines, e + 1, Len(lines)))
            /\ (op'.name = "delete" /\ e = s /\ Len(lines) > 1) =>
                  /\ Len(files'[op'.wrote]) = Len(lines) - 1
                  /\ \A j \in 1..(s - 1) : files'[op'.wrote][j] = lines[j]
                  /\ \A j \in (s + 1)..Len(lines) :
                         files'[op'.wrote][j - 1] = lines[j]]_vars

\* The one-line note at line 8 of the main file has been deleted, and the
\* blank line that followed it is still there.
C11_Witness ==
    /\ op.name = "delete"
    /\ op.kind = "note"
    /\ op.ok
    /\ files[MainFile] = SubSeq(InitMain, 1, 7) \o <<Blank>>

\* The number of directives of a kind in a snapshot.
CountKind(es, kind) == Cardinality({i \in 1..Len(es) : es[i].kind = kind})

\* C12: a create never splices.  After a successful create the file is its
\* previous content, then the rendered text of the payload, then a blank line,
\* and the reloaded snapshot holds exactly one more directive, of the created
\* kind.
C12_CreateAppendsOneDirective ==
    [][(Called({"create"}) /\ op'.ok) =>
        /\ files'[MainFile] = files[MainFile] \o RenderForCreate(op'.p).lines
                                  \o <<Blank>>
        /\ Len(entries') = Len(entries) + 1
        /\ CountKind(entries', op'.kind) = CountKind(entries, op'.kind) + 1]_vars

\* The step is the second of two updates in a row with the same identity and
\* the same payload, the first of which succeeded.
SecondSameUpdate ==
    /\ Called({"update"})
    /\ op.name = "update"
    /\ op.ok
    /\ op'.id = op.id
    /\ op'.p = op.p

\* C13: update is idempotent.  The second of two identical updates in a row
\* leaves the file content as the first left it, adds no blank line, and makes
\* no backup whose content another backup of the file already holds.
C13_UpdateIdempotent ==
    [][SecondSameUpdate =>
        /\ files' = files
        /\ \A b \in backups' \ backups :
               ~\E b0 \in backups : b0.file = b.file /\ b0.content = b.content]_vars

\* What a directive says, without the location the parser attaches to it.
SemanticContent(d) ==
    [kind |-> d.kind, date |-> d.date, payee |-> d.payee,
     narration |-> d.narration, comment |-> d.comment,
     tolerance |-> d.tolerance, postings |-> d.postings,
     memo |-> d.meta["memo"]]

\* C14: rendering round-trips.  The directive parsed from the rendered query
\* result has the semantic content of the directive queried.
C14_RenderRoundTrips ==
    rt.stage = "parsed" =>
        /\ rt.back # NoDirective
        /\ SemanticContent(rt.back) = SemanticContent(rt.d)

\* The backup files of ledger file f.
BackupsOf(bk, f) == {b \in bk : b.file = f}

\* The backup paths that were there before the step and are gone after it.
Deleted ==
    {b \in backups : ~\E k \in backups' : k.file = b.file /\ k.stamp = b.stamp}

\* The call of the step has made a backup: it got as far as
\* create_backup_if_enabled with backups enabled, or it is the in-place
\* commodity update, which copies the file itself.
BackupMade ==
    /\ Called(Mutations)
    /\ \/ op'.name = "commodity" /\ op'.kind = "inplace"
       \/ create_backups /\ op'.err \notin {"notfound", "unsupported"}

\* C15: backups are retained under a bounded count.  With a positive cap,
\* after a mutation that has made a backup no file has more backups than the
\* cap, the backup just made is there, and every backup deleted is older than
\* every backup of the file that remains; with cap zero no backup is deleted.
C15_BackupsBounded ==
    [][BackupMade =>
        IF max_backup_files > 0
        THEN /\ \A f \in FileNames :
                    Cardinality(BackupsOf(backups', f)) <= max_backup_files
             /\ \E b \in backups' : b.stamp = now
             /\ \A d \in Deleted : \A k \in BackupsOf(backups', d.file) :
                    d.stamp < k.stamp
        ELSE Deleted = {}]_vars

\* C16: the backup setting is honoured by every mutation.  With backups
\* disabled no backup file exists.
C16_NoBackupWhenDisabled == ~create_backups => backups = {}

\* The loader raised in the call of the step: a reload that failed, or a
\* mutation that failed after it had written the file.
LoaderRaised ==
    \/ Called({"reload"}) /\ ~op'.ok
    \/ Called(Mutations) /\ ~op'.ok /\ op'.wrote # "-"

\* C17: when the parser raises during a reload, the failure is surfaced and
\* the previous snapshot is left as it was; the snapshot changes only in a
\* call that returns success, to what the loader makes of the files.
C17_FailedLoadKeepsSnapshot ==
    [][/\ LoaderRaised =>
            /\ op'.err = "exception"
            /\ UNCHANGED <<entries, errors>>
       /\ (entries' # entries \/ errors' # errors) =>
            /\ nops' = nops + 1
            /\ op'.ok
            /\ entries' = LoadEntries(files')
            /\ errors' = LoadErrors(files')]_vars

\* A reload has failed and the snapshot is still the one of an earlier load,
\* older than the files.
C17_Witness ==
    /\ op.name = "reload"
    /\ ~op.ok
    /\ files # InitFiles
    /\ entries = LoadEntries(InitFiles)

\* C18: every mutation call that has started returns, and what it returns is
\* a success result or a failure result that carries an error: an error
\* inside a mutation ends in the except clause, and the scan for the end of
\* the region stops at the end of the lines read at the latest.
C18_MutationsReturn ==
    /\ [](op.name \in Mutations =>
            \/ op.ok /\ op.err = ""
            \/ ~op.ok /\ op.err \in {"notfound", "nolineno", "unsupported",
                                      "exception"})
    /\ \A t \in Threads : (pc[t] # "idle") ~> (pc[t] = "idle")

\* An update whose scan went over the lines of a region has returned, after
\* another mutation ended in its except clause.
C18_Witness ==
    /\ op.name = "update"
    /\ op.ok
    /\ \E t, u \in Threads :
         /\ pc[t] = "idle"
         /\ loc[t].call = "update"
         /\ loc[t].end_line > loc[t].entry.lineno
         /\ u # t
         /\ pc[u] = "idle"
         /\ loc[u].call \in {"update", "delete"}
         /\ loc[u].lines # <<>>
         /\ loc[u].snap = <<>>
         /\ loc[u].entry.lineno # NoLineno

\* C19: for every offset o and limit l the route accepts, with N the number
\* of directives after filtering, a get_entries call returns
\* min(l, max(0, N - o)) directives, which are the o-th to
\* (o + returned_count - 1)-th of the sorted filtered result (counted from 0),
\* and has_more tells whether o + returned_count < N.
C19_Pagination ==
    [][Called({"get_entries"}) =>
        LET sorted == SortByDate(FilterTypes(entries, page'.types))
            N == Len(sorted)
            o == page'.offset
            l == page'.limit
            count == Min(l, IF N - o > 0 THEN N - o ELSE 0)
        IN  /\ page'.total_count = N
            /\ page'.returned_count = count
            /\ Len(page'.entries) = count
            /\ \A i \in 1..count :
                 /\ o + i \in 1..N
                 /\ page'.entries[i] = sorted[o + i]
            /\ page'.has_more = (o + page'.returned_count < N)]_vars

\* C20: the directives get_entries returns are in descending order of date,
\* and two of the same date are in the order they have in the snapshot.
C20_DateDescendingStable ==
    [][Called({"get_entries"}) =>
        \A i, j \in 1..Len(page'.entries) :
            i < j =>
                /\ page'.entries[i].date >= page'.entries[j].date
                /\ page'.entries[i].date = page'.entries[j].date =>
                     \E a, b \in 1..Len(entries) :
                         /\ a < b
                         /\ entries[a] = page'.entries[i]
                         /\ entries[b] = page'.entries[j]]_vars

\* A page with two directives of one date and a directive of another date.
C20_Witness ==
    /\ op.name = "get_entries"
    /\ \E i, j, k \in 1..Len(page.entries) :
         /\ i < j
         /\ page.entries[i].date = page.entries[j].date
         /\ page.entries[i] # page.entries[j]
         /\ page.entries[k].date # page.entries[i].date

\* C21: a directive whose filtering or conversion raises during get_entries
\* is skipped and the call returns; the result holds every other directive
\* of the types asked for and no other, and total_count is their number.
C21_RaisingDirectiveSkipped ==
    [][Called({"get_entries"}) =>
        LET entry_types == IF page'.types = {}
                           THEN {"transaction", "balance", "pad", "note"}
                           ELSE page'.types
            others == {i \in 1..Len(entries) :
                          /\ entries[i].kind \in entry_types
                          /\ entries[i] \notin page'.failed}
            returned == {page'.entries[i] : i \in 1..Len(page'.entries)}
        IN  /\ op'.ok
            /\ page'.total_count = Cardinality(others)
            /\ returned \subseteq {entries[i] : i \in others}
            /\ page'.returned_count = page'.total_count =>
                 /\ returned = {entries[i] : i \in others}
                 /\ Len(page'.entries) = Cardinality(others)]_vars

\* A query has skipped a directive that raised and returned a directive that
\* follows it in the snapshot.
C21_Witness ==
    /\ op.name = "get_entries"
    /\ "failed" \in DOMAIN page
    /\ \E i, j \in 1..Len(entries) :
         /\ i < j
         /\ entries[i] \in page.failed
         /\ \E k \in 1..Len(page.entries) : page.entries[k] = entries[j]

\* C22: an in-place commodity-metadata update rewrites only the declaration's
\* region, which is its header and the indented, non-blank lines that follow
\* it: the header keeps its date, the metadata lines are those rendered from
\* the payload, and the lines before and after the region are unchanged.
C22_InPlaceRewritesOnlyRegion ==
    [][(/\ Called({"commodity"})
        /\ op'.kind = "inplace"
        /\ op'.wrote # "-") =>
        LET lines == files[op'.wrote]
            s == FindCommodity(entries, 1, op'.p.c).lineno
            e == RegionEnd(lines, s)
            meta == op'.p.body
        IN  /\ lines[s].t = "hdr"
            /\ lines[s].k = "commodity"
            /\ files'[op'.wrote] =
                  SubSeq(lines, 1, s - 1)
                  \o <<Hdr("commodity", lines[s].d, op'.p.c)>>
                  \o [i \in 1..Len(meta) |-> Cont(meta[i])]
                  \o SubSeq(lines, e + 1, Len(lines))]_vars

C24_RegionIsHeaderAndContinuations ==
    \A t \in Threads :
        LET lines == loc[t].lines
            s == loc[t].entry.lineno
            e == loc[t].end_line
        IN  (pc[t] \in {"scan", "write"} /\ s <= Len(lines)) =>
                /\ e \in s..Len(lines)
                /\ \A j \in (s + 1)..e : Continues(lines[j])
                /\ pc[t] = "write" =>
                     /\ e = Len(lines) \/ ~Continues(lines[e + 1])
                     /\ e = RegionEnd(lines, s)

\* A scan has ended two lines below the header of a transaction, in front of
\* a line that is not indented.
C24_Witness ==
    \E t \in Threads :
        /\ pc[t] = "write"
        /\ loc[t].entry.kind = "transaction"
        /\ loc[t].end_line = loc[t].entry.lineno + 2
        /\ loc[t].end_line < Len(loc[t].lines)
        /\ loc[t].lines[loc[t].end_line + 1].t = "hdr"

\* C25: an update or a delete takes its backup only once the region of its
\* directive has been located (the lines read and the scan from the
\* directive's source line finished), so a call whose directive cannot be
\* located has made no backup.
C25_BackupAfterLocated ==
    [][\A t \in Threads :
          (pc[t] = "backup" /\ pc'[t] # "backup" /\ backups' # backups) =>
              /\ loc[t].entry.lineno # NoLineno
              /\ loc[t].lines # <<>>
              /\ loc[t].end_line >= loc[t].entry.lineno]_vars

\* C26: every write path renders a metadata entry the same way, a string
\* value between double quotes and a number or a boolean as it is, without
\* quotes.
C26_MetadataRenderedAlike ==
    rt.stage = "metadata" =>
        rt.line.quoted = (rt.value.type = "str")

\* C27: after any sequence of calls the snapshot agrees with the files: the
\* source line of every directive of the snapshot is the line of that
\* directive's header in the file as it is now.
C27_SnapshotAgreesWithFile ==
    \A i \in 1..Len(entries) :
        LET e == entries[i]
        IN  e.lineno # NoLineno =>
                /\ e.lineno <= Len(files[e.filename])
                /\ files[e.filename][e.lineno] = Hdr(e.kind, e.date, e.c)

\* C28: an update never replaces a directive of one kind with the rendering
\* of another.  A payload of a kind other than transaction, balance and note
\* is rejected and no file is read or written; an id that refers to a
\* directive of another kind than the payload's gives not-found and leaves
\* the files alone; and the region an update does replace begins with the
\* header of a directive of the payload's kind.
C28_UpdateKeepsKind ==
    [][Called({"update"}) =>
        LET e == find_entry_by_id(entries, op'.id)
            found == FindOfKind(entries, op'.kind, op'.id)
        IN  /\ op'.kind \notin {"transaction", "balance", "note"} =>
                 /\ op'.err = "unsupported"
                 /\ UNCHANGED <<files, mtime, backups>>
            /\ (/\ op'.kind \in {"transaction", "balance", "note"}
                /\ e # None
                /\ e.kind # op'.kind) =>
                 /\ op'.err = "notfound"
                 /\ UNCHANGED <<files, mtime, backups>>
            /\ op'.wrote # "-" =>
                 /\ found.lineno <= Len(files[op'.wrote])
                 /\ files[op'.wrote][found.lineno].t = "hdr"
                 /\ files[op'.wrote][found.lineno].k = op'.kind]_vars

\* C29: backups of distinct mutations never share a path.  A mutation that
\* takes a backup leaves every backup of an earlier mutation that is still
\* there with the content it had, and the backup it makes is at a path that
\* no earlier backup had, also when the clock has not advanced since the
\* earlier mutation.
C29_BackupPathsDistinct ==
    [][BackupMade =>
        /\ \A b \in backups : \A k \in backups' :
                (k.file = b.file /\ k.stamp = b.stamp) => k = b
        /\ \E k \in backups' : k.stamp = now /\
                ~\E b \in backups : b.file = k.file /\ b.stamp = k.stamp]_vars

\* C30: create followed by delete of the directive just created restores the
\* file.  When the first call has created a directive and the next call is a
\* successful delete of that directive, the files are again those from before
\* the create.
C30_CreateDeleteRestores ==
    [][(/\ nops = 1
        /\ op.name = "create"
        /\ op.ok
        /\ Called({"delete"})
        /\ op'.ok
        /\ op'.id[5] = MainFile
        /\ op'.id[6] > Len(InitFiles[MainFile])) =>
            files' = InitFiles]_vars

====
